---- MODULE Spec2Model ----
(***************************************************************************)
(* The EXCLURAD kinematic slice-and-curve engine and the two browser       *)
(* front ends that drive it:                                               *)
(*   "explorer"  src/unnamed/part_000 lines 102-411 (Update button, draw)  *)
(*   "viewer"    src/docs/assets/app.js            (materialize, render)   *)
(*                                                                         *)
(* Numbers are integers in units of 5e-7 (1.6975 is 3395000, 18 degrees is *)
(* 36000000), so that the tight tolerance 1e-6 is 2 and a value can lie    *)
(* strictly inside it.  NaN stands for every non-finite number (NaN,       *)
(* +-Infinity, and undefined after Number()).                              *)
(***************************************************************************)
EXTENDS Integers, Sequences, FiniteSets, TLC

----------------------------------------------------------------------------
(* Bounds of the checked input space *)

MaxGroups == 9
SmallGroups == 2
MaxWeak == 2
MaxInFlight == 2

----------------------------------------------------------------------------
(* Program constants *)

NaN == -1
Unit == 2000000
Milli == 2000
EpsPhi == 2000
EpsKey == 2
MinPoints == 4
MaxTraces == 8
PaletteSize == 8

AllVars == <<"W", "Q2", "cos", "phi">>

VarSet == {"W", "Q2", "cos", "phi"}

VARCOL == [v \in VarSet |->
             CASE v = "W" -> "w_r" [] v = "Q2" -> "q2_r"
               [] v = "cos" -> "ct_r" [] v = "phi" -> "phi_deg"]

YCols == {"delta_xsec_ratio", "A_ratio"}

Datasets == {"sample", "full"}

----------------------------------------------------------------------------
(* Helpers *)

Abs(a) == IF a < 0 THEN -a ELSE a

isFinite(v) == v # NaN

\* Math.abs(a - b) <= eps; any comparison with NaN is false
approxEq(a, b, eps) == isFinite(a) /\ isFinite(b) /\ Abs(a - b) <= eps

Eps(k) == IF k = "phi_deg" THEN EpsPhi ELSE EpsKey

\* Number.prototype.toFixed(p) on a finite value: round to 10^-p, here the
\* rounded value in units of 10^-p; NaN formats as "NaN"
toFixed(v, p) ==
  IF ~isFinite(v) THEN NaN
  ELSE IF p = 0 THEN (v + Unit \div 2) \div Unit
  ELSE (v + Milli \div 2) \div Milli

Decimals(v) == IF v = "phi" THEN 0 ELSE 3

Min2(a, b) == IF a < b THEN a ELSE b

Max2(a, b) == IF a > b THEN a ELSE b

SeqToSet(s) == {s[i] : i \in DOMAIN s}

\* Array.prototype.sort((a,b) => a - b) on distinct finite numbers
RECURSIVE SortAsc(_)
SortAsc(S) ==
  IF S = {} THEN <<>>
  ELSE LET m == CHOOSE a \in S : \A b \in S : a <= b
       IN <<m>> \o SortAsc(S \ {m})

\* new Set(arr) -> filter(Number.isFinite) -> sort
uniqueSorted(arr) == SortAsc({v \in SeqToSet(arr) : isFinite(v)})

Column(data, k) == [i \in DOMAIN data |-> data[i][k]]

\* s.slice(0, n)
Slice(s, n) == SubSeq(s, 1, Min2(n, Len(s)))

\* pts.sort((a,b) => a[0] - b[0]): stable, ties keep their order
RECURSIVE InsertPt(_, _)
InsertPt(sorted, p) ==
  IF sorted = <<>> THEN <<p>>
  ELSE IF sorted[Len(sorted)][1] <= p[1] THEN Append(sorted, p)
  ELSE Append(InsertPt(SubSeq(sorted, 1, Len(sorted) - 1), p),
              sorted[Len(sorted)])

\* the points left in row order
RowOrderPts(pts) == pts

RECURSIVE SortPts(_)
SortPts(pts) ==
  IF pts = <<>> THEN <<>>
  ELSE InsertPt(SortPts(SubSeq(pts, 1, Len(pts) - 1)), pts[Len(pts)])

\* rows.sort((a,b) => (b.n - a.n) || (a.ov - b.ov)); the ov are distinct
CoverBefore(a, b) == a.n > b.n \/ (a.n = b.n /\ a.ov <= b.ov)

RECURSIVE SortCover(_)
SortCover(S) ==
  IF S = {} THEN <<>>
  ELSE LET m == CHOOSE a \in S : \A b \in S : CoverBefore(a, b)
       IN <<m>> \o SortCover(S \ {m})

----------------------------------------------------------------------------
(* Explorer query: groupCoverage and buildCurves *)

yValue(row, ycol) ==
  IF ycol = "delta_xsec_ratio" THEN row.delta_xsec_ratio ELSE row.A_ratio

yOK(row, ycol) ==
  IF ycol = "delta_xsec_ratio"
  THEN row.ok_delta /\ isFinite(row.delta_xsec_ratio)
  ELSE row.ok_asym /\ isFinite(row.A_ratio)

fixedMatch(row, fixed) ==
  \A k \in DOMAIN fixed : approxEq(row[k], fixed[k], Eps(k))

coverMask(data, ycol, fixed) ==
  [i \in DOMAIN data |->
     data[i].ok_kin /\ yOK(data[i], ycol) /\ fixedMatch(data[i], fixed)]

groupCoverage(data, ycol, xvar, fixed, overlayKey, minPoints) ==
  LET xKey == VARCOL[xvar]
      mask == coverMask(data, ycol, fixed)
      kept == {i \in DOMAIN data :
                 mask[i] /\ isFinite(data[i][overlayKey])
                         /\ isFinite(data[i][xKey])}
      ovs  == {data[i][overlayKey] : i \in kept}
      rows == {[ov |-> ov,
                n  |-> Cardinality({data[i][xKey] :
                          i \in {j \in kept : data[j][overlayKey] = ov}})]
               : ov \in ovs}
  IN SelectSeq(SortCover(rows), LAMBDA r : r.n >= minPoints)

curveRow(row, ycol, xKey, overlayKey, fixed, ov) ==
  /\ row.ok_kin
  /\ approxEq(row[overlayKey], ov, Eps(overlayKey))
  /\ fixedMatch(row, fixed)
  /\ isFinite(row[xKey])
  /\ yOK(row, ycol)

curvePts(data, ycol, xKey, overlayKey, fixed, ov) ==
  LET hit == SelectSeq(data,
               LAMBDA row : curveRow(row, ycol, xKey, overlayKey, fixed, ov))
  IN [i \in DOMAIN hit |-> <<hit[i][xKey], yValue(hit[i], ycol)>>]

traceName(overlayVar, ov) ==
  <<overlayVar, toFixed(ov, Decimals(overlayVar))>>

KeyVar(k) == CHOOSE v \in VarSet : VARCOL[v] = k

RECURSIVE buildFrom(_, _, _, _, _, _, _, _)
buildFrom(idx, data, ycol, xKey, overlayKey, fixed, overlayList, minPoints) ==
  IF idx > Len(overlayList) THEN <<>>
  ELSE LET ov   == overlayList[idx]
           pts  == curvePts(data, ycol, xKey, overlayKey, fixed, ov)
           srt  == SortPts(pts)
           rest == buildFrom(idx + 1, data, ycol, xKey, overlayKey, fixed,
                             overlayList, minPoints)
       IN IF Len(pts) < minPoints THEN rest
          ELSE <<[name  |-> traceName(KeyVar(overlayKey), ov),
                  ov    |-> ov,
                  x     |-> [i \in DOMAIN srt |-> srt[i][1]],
                  y     |-> [i \in DOMAIN srt |-> srt[i][2]],
                  style |-> (idx - 1) % PaletteSize]>> \o rest

buildCurves(data, ycol, xvar, overlayKey, fixed, overlayList, minPoints) ==
  buildFrom(1, data, ycol, VARCOL[xvar], overlayKey, fixed, overlayList,
            minPoints)

----------------------------------------------------------------------------
(* Viewer query: currentSelection and render *)

yFlag(row, ykey) ==
  IF ykey = "delta_xsec_ratio" THEN row.ok_delta ELSE row.ok_asym

\* col[i] !== fixVals[v] is false: strict equality, never true of NaN
strictEq(a, b) == isFinite(a) /\ isFinite(b) /\ a = b

selMask(TABLE, ykey, fixVals) ==
  [i \in DOMAIN TABLE |->
     /\ TABLE[i].ok_kin
     /\ yFlag(TABLE[i], ykey)
     /\ \A v \in DOMAIN fixVals : strictEq(TABLE[i][VARCOL[v]], fixVals[v])]

\* byOv.get(ovVal).set(xVal, yVal): the last admitted row of a cell wins
lastY(TABLE, ykey, rows, xk, xVal) ==
  LET hits == {i \in rows : TABLE[i][xk] = xVal}
      last == CHOOSE i \in hits : \A j \in hits : j <= i
  IN yValue(TABLE[last], ykey)

currentSelection(TABLE, ykey, x, overlay, fixVals) ==
  LET xk   == VARCOL[x]
      ok   == VARCOL[overlay]
      mask == selMask(TABLE, ykey, fixVals)
      kept == {i \in DOMAIN TABLE :
                 /\ mask[i]
                 /\ isFinite(TABLE[i][ok])
                 /\ isFinite(TABLE[i][xk])
                 /\ isFinite(yValue(TABLE[i], ykey))}
      ovs  == {TABLE[i][ok] : i \in kept}
      trace(ovVal) ==
        LET rows == {i \in kept : TABLE[i][ok] = ovVal}
            xs   == SortAsc({TABLE[i][xk] : i \in rows})
        IN [ovVal |-> ovVal,
            xs    |-> xs,
            ys    |-> [i \in DOMAIN xs |-> lastY(TABLE, ykey, rows, xk, xs[i])],
            n     |-> Len(xs)]
      byN  == SortCover({[ov |-> ov, n |-> trace(ov).n] : ov \in ovs})
  IN [i \in DOMAIN byN |-> trace(byN[i].ov)]

render(TABLE, ykey, x, overlay, fixVals) ==
  LET traces == currentSelection(TABLE, ykey, x, overlay, fixVals)
      shown  == Min2(MaxTraces, Len(traces))
  IN [i \in 1..shown |->
        [name  |-> traceName(overlay, traces[i].ovVal),
         ov    |-> traces[i].ovVal,
         x     |-> traces[i].xs,
         y     |-> traces[i].ys,
         style |-> (i - 1) % PaletteSize]]

----------------------------------------------------------------------------
(* Tables: the simulation grid of the input-file generator, W by phi at    *)
(* fixed Q2 and cos theta, with the irregularities a result file shows     *)

\* W = 1.5 + 0.025 g, phi = 18 + 36 (j - 1) degrees, Q2 = 0.4105 or 0.7085
WVal(g) == 3000000 + 50000 * g

PhiVal(j) == 36000000 + 72000000 * (j - 1)

Q2Val(q) == IF q = 1 THEN 821000 ELSE 1417000

Defects == {"none", "nanX", "nanY", "nanOv", "badKin", "badDelta",
            "nearOv", "nearPhi", "dupX"}

GridRow(w, q2, ct, phi, d, a) ==
  [w_r |-> w, q2_r |-> q2, ct_r |-> ct, phi_deg |-> phi,
   delta_xsec_ratio |-> d, A_ratio |-> a,
   ok_kin |-> TRUE, ok_delta |-> TRUE, ok_asym |-> TRUE]

\* rows of one W value, phi descending as the result files list them
RECURSIVE GroupRows(_, _, _)
GroupRows(g, j, weak) ==
  IF j = 0 THEN <<>>
  ELSE IF j = 1 /\ g \in weak THEN <<>>
  ELSE <<GridRow(WVal(g), Q2Val(1), 0, PhiVal(j),
                 2000000 + 7000 * g + 100 * j, 1800000 + 100 * g - 7000 * j)>>
       \o GroupRows(g, j - 1, weak)

RECURSIVE GridRows(_, _, _)
GridRows(g, nx, weak) ==
  IF g = 0 THEN <<>>
  ELSE GridRows(g - 1, nx, weak) \o GroupRows(g, nx, weak)

\* the second Q2 value is computed for the first W only
SecondQ2(p) ==
  IF p.groups = 0 \/ ~p.second THEN <<>>
  ELSE [j \in 1..p.nx |->
          GridRow(WVal(1), Q2Val(2), 0, PhiVal(j), 2200000 + j, 1600000 + j)]

DefectRows(p) ==
  LET base == GridRow(WVal(1), Q2Val(1), 0, PhiVal(1), 2469134, 1530864)
  IN CASE p.defect = "nanX"    -> <<[base EXCEPT !.phi_deg = NaN]>>
       [] p.defect = "nanOv"   -> <<[base EXCEPT !.w_r = NaN]>>
       [] p.defect = "nearOv"  -> <<[base EXCEPT !.w_r = WVal(1) + EpsKey \div 2]>>
       [] p.defect = "nearPhi" ->
            <<[base EXCEPT !.phi_deg = PhiVal(1) + EpsPhi \div 2]>>
       [] p.defect = "dupX"    -> <<base>>
       [] OTHER -> <<>>

Spoil(row, p) ==
  IF row.w_r = WVal(1) /\ row.phi_deg = PhiVal(p.nx) /\ row.q2_r = Q2Val(1)
  THEN CASE p.defect = "nanY"     ->
              [row EXCEPT !.delta_xsec_ratio = NaN, !.A_ratio = NaN]
         [] p.defect = "badKin"   -> [row EXCEPT !.ok_kin = FALSE]
         [] p.defect = "badDelta" -> [row EXCEPT !.ok_delta = FALSE]
         [] OTHER -> row
  ELSE row

Rows(p) ==
  LET grid == GridRows(p.groups, p.nx, p.weak) \o SecondQ2(p)
  IN [i \in DOMAIN grid |-> Spoil(grid[i], p)] \o DefectRows(p)

Domains(p) ==
  LET r == Rows(p)
  IN [v \in VarSet |-> uniqueSorted(Column(r, VARCOL[v]))]

----------------------------------------------------------------------------
(* State of a running front end *)

VARIABLES
  impl,        \* which front end runs: "explorer" or "viewer"
  tagged,      \* the feather files carry their URL as schema metadata "source"
  datasetSel,  \* dataset <select>
  xSel,        \* x-axis <select>
  ovSel,       \* overlay <select>
  ySel,        \* y metric <select>
  table,       \* explorer `table`, viewer TABLE: the decoded Arrow table
  data,        \* explorer `data`: the materialized columns
  wired,       \* slider controllers exist (viewer: buildSliders has run)
  values,      \* per axis, the value array the slider controller closes over
  idx,         \* per axis, the <input type=range> value
  inflight,    \* suspended loads, in request order
  plot,        \* what the figure element shows
  report       \* what the last handler surfaced

vars == <<impl, tagged, datasetSel, xSel, ovSel, ySel, table, data, wired,
          values, idx, inflight, plot, report>>

NoP == [groups |-> 0, nx |-> 0, weak |-> {}, defect |-> "none",
        second |-> FALSE]

NoTable == [file |-> "", p |-> NoP, complete |-> FALSE]

\* the two published datasets: the sample holds a subset of the full grid
SampleP == [groups |-> 1, nx |-> MinPoints, weak |-> {}, defect |-> "none",
            second |-> FALSE]

FullP == [groups |-> 1, nx |-> MinPoints + 1, weak |-> {}, defect |-> "none",
          second |-> FALSE]

DATA_FILES(d) == IF d = "sample" THEN SampleP ELSE FullP

Fetched(d, complete) == [file |-> d, p |-> DATA_FILES(d), complete |-> complete]

NoPlot == [kind |-> "none", traces |-> <<>>]

Curves(t) == [kind |-> "curves", traces |-> t]

ErrorDiv == [kind |-> "error", traces |-> <<>>]

fixedVars(x, overlay) == {v \in VarSet : v # x /\ v # overlay}

\* the last variable other than x
findOtherLast(i, x) == IF x = "phi" THEN "cos" ELSE "phi"

\* allVars.find(v => v !== x)
RECURSIVE findOther(_, _)
findOther(i, x) ==
  IF i > Len(AllVars) THEN x
  ELSE IF AllVars[i] # x THEN AllVars[i] ELSE findOther(i + 1, x)

inputMax(vals) == Max2(0, Len(vals) - 1)

\* explorer: values[Number(inputEl.value)], undefined past the end
getValue(vals, i) == IF i + 1 \in DOMAIN vals THEN vals[i + 1] ELSE NaN

\* viewer: arr[clamp(idx)], NaN for an empty domain
get(vals, i) ==
  IF vals = <<>> THEN NaN
  ELSE vals[Max2(0, Min2(Len(vals) - 1, i)) + 1]

explorerFixed(x, overlay, vals, ix) ==
  [k \in {VARCOL[v] : v \in fixedVars(x, overlay)} |->
     getValue(vals[KeyVar(k)], ix[KeyVar(k)])]

viewerFixVals(x, overlay, vals, ix) ==
  [v \in fixedVars(x, overlay) |-> get(vals[v], ix[v])]

\* every ranked group, no slice
pickedAll(cover) == SortAsc({cover[i].ov : i \in DOMAIN cover})

\* cover.slice(0, maxTraces).map(r => r.ov).sort((a,b) => a - b)
picked(cover) ==
  LET top == Slice(cover, MaxTraces)
  IN SortAsc({top[i].ov : i \in DOMAIN top})

drawTraces(d, ycol, xvar, overlay, fixed) ==
  LET overlayKey == VARCOL[overlay]
      cover == groupCoverage(d, ycol, xvar, fixed, overlayKey, MinPoints)
  IN buildCurves(d, ycol, xvar, overlayKey, fixed, picked(cover), MinPoints)

----------------------------------------------------------------------------
(* Explorer: main, maybeReloadDataset, draw and the event handlers *)

\* draw without the overlay = x check
drawBodyUnchecked(d) ==
  /\ report' = "drawn"
  /\ plot' = Curves(drawTraces(Rows(d.p), ySel, xSel, ovSel,
                       explorerFixed(xSel, ovSel, values, idx)))

\* draw whose rejection clears the figure
drawBodyClearing(d) ==
  IF ovSel = xSel
  THEN /\ report' = "alert"
       /\ plot' = NoPlot
  ELSE /\ report' = "drawn"
       /\ plot' = Curves(drawTraces(Rows(d.p), ySel, xSel, ovSel,
                            explorerFixed(xSel, ovSel, values, idx)))

\* draw that adds its traces to the figure instead of replacing them
drawBodyAdding(d) ==
  IF ovSel = xSel
  THEN /\ report' = "alert"
       /\ plot' = plot
  ELSE /\ report' = "drawn"
       /\ plot' = Curves(plot.traces \o
                          drawTraces(Rows(d.p), ySel, xSel, ovSel,
                            explorerFixed(xSel, ovSel, values, idx)))

\* draw after the await: the selection check, the query, Plotly.newPlot
drawBody(d) ==
  IF ovSel = xSel
  THEN /\ report' = "alert"
       /\ plot' = plot
  ELSE /\ report' = "drawn"
       /\ plot' = Curves(drawTraces(Rows(d.p), ySel, xSel, ovSel,
                            explorerFixed(xSel, ovSel, values, idx)))

\* a pending load: the awaited promise and the file it was started for;
\* overtaken records that a load requested after it has already put its
\* table to use
Request(stage, which) ==
  [stage |-> stage, which |-> which, overtaken |-> FALSE]

\* the load at position i succeeds: the loads requested before it that are
\* still pending have been overtaken
Overtake(s, i) ==
  [j \in DOMAIN s |->
     IF j < i /\ s[j].stage # "meta"
     THEN [s[j] EXCEPT !.overtaken = TRUE]
     ELSE s[j]]

currentURL == IF tagged THEN table.file ELSE ""

\* click on Update (and the first draw of main): draw up to its await
ExplorerUpdate ==
  /\ impl = "explorer"
  /\ IF datasetSel = currentURL
     THEN /\ drawBody(data)
          /\ UNCHANGED inflight
     ELSE /\ Len(inflight) < MaxInFlight
          /\ inflight' = Append(inflight, Request("load", datasetSel))
          /\ report' = "idle"
          /\ plot' = plot
  /\ UNCHANGED <<impl, tagged, datasetSel, xSel, ovSel, ySel, table, data,
                 wired, values, idx>>

Without(s, i) == SubSeq(s, 1, i - 1) \o SubSeq(s, i + 1, Len(s))

\* loadFeather resolves: table and data are replaced, draw goes on
ExplorerLoaded(i) ==
  /\ impl = "explorer"
  /\ i \in DOMAIN inflight
  /\ table' = Fetched(inflight[i].which, TRUE)
  /\ data' = table'
  /\ drawBody(data')
  /\ inflight' = Without(Overtake(inflight, i), i)
  /\ UNCHANGED <<impl, tagged, datasetSel, xSel, ovSel, ySel, wired, values,
                 idx>>

\* a rejected draw: the first draw is awaited by main, whose catch writes the
\* error into the plot element; a draw started by a click is awaited by nobody
drawRejected(entry) ==
  IF entry.stage = "first"
  THEN /\ report' = "loaderror"
       /\ plot' = ErrorDiv
  ELSE /\ report' = "unhandled"
       /\ plot' = plot

\* fetch or tableFromIPC throws inside loadFeather
ExplorerFetchFailed(i) ==
  /\ impl = "explorer"
  /\ i \in DOMAIN inflight
  /\ inflight' = Without(inflight, i)
  /\ drawRejected(inflight[i])
  /\ UNCHANGED <<impl, tagged, datasetSel, xSel, ovSel, ySel, table, data,
                 wired, values, idx>>

\* the file decodes but lacks a column: table is assigned, materialize throws
ExplorerColumnMissing(i) ==
  /\ impl = "explorer"
  /\ i \in DOMAIN inflight
  /\ table' = Fetched(inflight[i].which, FALSE)
  /\ inflight' = Without(inflight, i)
  /\ drawRejected(inflight[i])
  /\ UNCHANGED <<impl, tagged, datasetSel, xSel, ovSel, ySel, data, wired,
                 values, idx>>

\* selX change handler
ExplorerChangeX(v) ==
  /\ impl = "explorer"
  /\ v # xSel
  /\ xSel' = v
  /\ ovSel' = IF ovSel = v THEN findOther(1, v) ELSE ovSel
  /\ report' = "idle"
  /\ UNCHANGED <<impl, tagged, datasetSel, ySel, table, data, wired, values,
                 idx, inflight, plot>>

\* the overlay, y and dataset selects have no handler
ExplorerChangeOverlay(v) ==
  /\ impl = "explorer"
  /\ v # ovSel
  /\ ovSel' = v
  /\ report' = "idle"
  /\ UNCHANGED <<impl, tagged, datasetSel, xSel, ySel, table, data, wired,
                 values, idx, inflight, plot>>

ExplorerChangeY(y) ==
  /\ impl = "explorer"
  /\ y # ySel
  /\ ySel' = y
  /\ report' = "idle"
  /\ UNCHANGED <<impl, tagged, datasetSel, xSel, ovSel, table, data, wired,
                 values, idx, inflight, plot>>

ExplorerChangeDataset(d) ==
  /\ impl = "explorer"
  /\ d # datasetSel
  /\ datasetSel' = d
  /\ report' = "idle"
  /\ UNCHANGED <<impl, tagged, xSel, ovSel, ySel, table, data, wired, values,
                 idx, inflight, plot>>

\* setFromIndex on a slider's input event
setFromIndex(vals, i) == Max2(0, Min2(Len(vals) - 1, i))

ExplorerSlider(a, i) ==
  /\ impl = "explorer"
  /\ i \in 0..inputMax(values[a])
  /\ i # idx[a]
  /\ idx' = [idx EXCEPT ![a] = setFromIndex(values[a], i)]
  /\ report' = "idle"
  /\ UNCHANGED <<impl, tagged, datasetSel, xSel, ovSel, ySel, table, data,
                 wired, values, inflight, plot>>

----------------------------------------------------------------------------
(* Viewer: materialize, render and the event handlers *)

\* render(): a throw inside (TABLE null, SLIDERS empty) lands in its catch
renderBody(t, built, vals, ix, x, overlay, y) ==
  IF t = NoTable \/ ~built
  THEN /\ report' = "rendererror"
       /\ plot' = ErrorDiv
  ELSE /\ report' = "drawn"
       /\ plot' = Curves(render(Rows(t.p), y, x, overlay,
                                viewerFixVals(x, overlay, vals, ix)))

\* datasetSel change handler: materialize up to the await in loadTable
ViewerChangeDataset(d) ==
  /\ impl = "viewer"
  /\ d # datasetSel
  /\ Len(inflight) < MaxInFlight
  /\ datasetSel' = d
  /\ inflight' = Append(inflight, Request("fetch", d))
  /\ report' = "idle"
  /\ UNCHANGED <<impl, tagged, xSel, ovSel, ySel, table, data, wired, values,
                 idx, plot>>

\* loadTable resolves: TABLE is assigned, materialize awaits the meta fetch
ViewerFetched(i) ==
  /\ impl = "viewer"
  /\ i \in DOMAIN inflight
  /\ inflight[i].stage = "fetch"
  /\ table' = Fetched(inflight[i].which, TRUE)
  /\ inflight' = [Overtake(inflight, i) EXCEPT ![i] = Request("meta", "")]
  /\ report' = "idle"
  /\ UNCHANGED <<impl, tagged, datasetSel, xSel, ovSel, ySel, data, wired,
                 values, idx, plot>>

\* loadTable throws (fetch not ok, decode error): the handler's catch
\* writes the error into the figure
ViewerFetchFailed(i) ==
  /\ impl = "viewer"
  /\ i \in DOMAIN inflight
  /\ inflight[i].stage = "fetch"
  /\ inflight' = Without(inflight, i)
  /\ report' = "loaderror"
  /\ plot' = ErrorDiv
  /\ UNCHANGED <<impl, tagged, datasetSel, xSel, ovSel, ySel, table, data,
                 wired, values, idx>>

\* loadTable's column check throws before TABLE is assigned
ViewerColumnMissing(i) ==
  /\ impl = "viewer"
  /\ i \in DOMAIN inflight
  /\ inflight[i].stage = "fetch"
  /\ inflight' = Without(inflight, i)
  /\ report' = "loaderror"
  /\ plot' = ErrorDiv
  /\ UNCHANGED <<impl, tagged, datasetSel, xSel, ovSel, ySel, table, data,
                 wired, values, idx>>

\* makeDiscreteSlider: inputEl.value = 0 unless the domain is empty
rebuiltIdx(vals, ix) == [a \in VarSet |-> IF vals[a] = <<>> THEN ix[a] ELSE 0]

\* the meta fetch settles: AX_UNIQUE, buildSliders, render, all from the
\* TABLE of that moment
ViewerMaterialized(i) ==
  /\ impl = "viewer"
  /\ i \in DOMAIN inflight
  /\ inflight[i].stage = "meta"
  /\ values' = Domains(table.p)
  /\ idx' = rebuiltIdx(values', idx)
  /\ wired' = TRUE
  /\ inflight' = Without(inflight, i)
  /\ renderBody(table, TRUE, values', idx', xSel, ovSel, ySel)
  /\ UNCHANGED <<impl, tagged, datasetSel, xSel, ovSel, ySel, table, data>>

\* refreshOverlayOptions: the options are rebuilt without x; a select whose
\* value is gone shows its first option
refreshOverlay(x, current) == IF current = x THEN findOther(1, x) ELSE current

ViewerChangeX(v) ==
  /\ impl = "viewer"
  /\ v # xSel
  /\ xSel' = v
  /\ ovSel' = refreshOverlay(v, ovSel)
  /\ renderBody(table, wired, values, idx, xSel', ovSel', ySel)
  /\ UNCHANGED <<impl, tagged, datasetSel, ySel, table, data, wired, values,
                 idx, inflight>>

ViewerChangeOverlay(v) ==
  /\ impl = "viewer"
  /\ v # ovSel
  /\ v # xSel
  /\ ovSel' = v
  /\ renderBody(table, wired, values, idx, xSel, ovSel', ySel)
  /\ UNCHANGED <<impl, tagged, datasetSel, xSel, ySel, table, data, wired,
                 values, idx, inflight>>

ViewerChangeY(y) ==
  /\ impl = "viewer"
  /\ y # ySel
  /\ ySel' = y
  /\ renderBody(table, wired, values, idx, xSel, ovSel, ySel')
  /\ UNCHANGED <<impl, tagged, datasetSel, xSel, ovSel, table, data, wired,
                 values, idx, inflight>>

ViewerUpdate ==
  /\ impl = "viewer"
  /\ renderBody(table, wired, values, idx, xSel, ovSel, ySel)
  /\ UNCHANGED <<impl, tagged, datasetSel, xSel, ovSel, ySel, table, data,
                 wired, values, idx, inflight>>

\* input event of an enabled slider (the x and overlay sliders are disabled)
ViewerSlider(a, i) ==
  /\ impl = "viewer"
  /\ wired
  /\ a \in fixedVars(xSel, ovSel)
  /\ i \in 0..inputMax(values[a])
  /\ i # idx[a]
  /\ idx' = [idx EXCEPT ![a] = i]
  /\ renderBody(table, wired, values, idx', xSel, ovSel, ySel)
  /\ UNCHANGED <<impl, tagged, datasetSel, xSel, ovSel, ySel, table, data,
                 wired, values, inflight>>

----------------------------------------------------------------------------
(* The front ends from page load on *)

\* buildDiscreteSlider: setFromIndex(Math.floor(values.length / 2))
initialIdx(vals) ==
  [a \in VarSet |-> setFromIndex(vals[a], Len(vals[a]) \div 2)]

\* main of the explorer up to the first suspension of its first draw
ExplorerInit ==
  /\ impl = "explorer"
  /\ tagged \in BOOLEAN
  /\ datasetSel = "sample"
  /\ xSel \in VarSet
  /\ ovSel \in VarSet \ {xSel}
  /\ ySel \in YCols
  /\ table = Fetched(datasetSel, TRUE)
  /\ data = table
  /\ wired = TRUE
  /\ values = Domains(table.p)
  /\ idx = initialIdx(values)
  /\ inflight = IF tagged THEN <<>>
                ELSE <<Request("first", datasetSel)>>
  /\ plot = IF tagged
            THEN Curves(drawTraces(Rows(data.p), ySel, xSel, ovSel,
                                   explorerFixed(xSel, ovSel, values, idx)))
            ELSE NoPlot
  /\ report = IF tagged THEN "drawn" ELSE "idle"

\* main of the viewer: the first materialize waits in loadTable
ViewerInit ==
  /\ impl = "viewer"
  /\ tagged = FALSE
  /\ datasetSel \in Datasets
  /\ xSel \in VarSet
  /\ ovSel \in VarSet \ {xSel}
  /\ ySel \in YCols
  /\ table = NoTable
  /\ data = NoTable
  /\ wired = FALSE
  /\ values = [a \in VarSet |-> <<>>]
  /\ idx = [a \in VarSet |-> 0]
  /\ inflight = <<Request("fetch", datasetSel)>>
  /\ plot = NoPlot
  /\ report = "idle"

Init == ExplorerInit \/ ViewerInit

Next ==
  \/ ExplorerUpdate
  \/ \E i \in 1..MaxInFlight : ExplorerLoaded(i)
  \/ \E i \in 1..MaxInFlight : ExplorerFetchFailed(i)
  \/ \E i \in 1..MaxInFlight : ExplorerColumnMissing(i)
  \/ \E v \in VarSet : ExplorerChangeX(v)
  \/ \E v \in VarSet : ExplorerChangeOverlay(v)
  \/ \E y \in YCols : ExplorerChangeY(y)
  \/ \E d \in Datasets : ExplorerChangeDataset(d)
  \/ \E a \in VarSet, i \in 0..MaxGroups : ExplorerSlider(a, i)
  \/ \E d \in Datasets : ViewerChangeDataset(d)
  \/ \E i \in 1..MaxInFlight : ViewerFetched(i)
  \/ \E i \in 1..MaxInFlight : ViewerFetchFailed(i)
  \/ \E i \in 1..MaxInFlight : ViewerColumnMissing(i)
  \/ \E i \in 1..MaxInFlight : ViewerMaterialized(i)
  \/ \E v \in VarSet : ViewerChangeX(v)
  \/ \E v \in VarSet : ViewerChangeOverlay(v)
  \/ \E y \in YCols : ViewerChangeY(y)
  \/ ViewerUpdate
  \/ \E a \in VarSet, i \in 0..MaxGroups : ViewerSlider(a, i)

Spec == Init /\ [][Next]_vars

----------------------------------------------------------------------------
(* The query on its own: a front end that holds any table of the family,   *)
(* with any selection and slider positions, is asked to redraw             *)

IrregularTables ==
  {[groups |-> g, nx |-> n, weak |-> {}, defect |-> d, second |-> TRUE] :
     g \in 0..SmallGroups, n \in MinPoints..(MinPoints + 1), d \in Defects}

\* more W values than the palette has traces, some lacking the first phi
CrowdedTables ==
  {[groups |-> MaxGroups, nx |-> n, weak |-> w, defect |-> "none",
    second |-> TRUE] :
     n \in MinPoints..(MinPoints + 1),
     w \in {u \in SUBSET (1..MaxGroups) :
              Cardinality(u) >= 1 /\ Cardinality(u) <= MaxWeak}}

QueryTables == IrregularTables \cup CrowdedTables

\* slider positions tried: both ends and the initial middle
Stops(vals) == {0, Len(vals) \div 2, inputMax(vals)}

StopsOr(a, x, overlay, vals, rest) ==
  IF x # overlay /\ a \in fixedVars(x, overlay) THEN Stops(vals[a])
  ELSE {rest[a]}

QueryInit ==
  /\ impl \in {"explorer", "viewer"}
  /\ tagged = (impl = "explorer")
  /\ datasetSel = "sample"
  /\ xSel \in VarSet
  /\ ovSel \in IF impl = "explorer" THEN VarSet ELSE VarSet \ {xSel}
  /\ ySel \in YCols
  /\ \E p \in QueryTables :
       table = [file |-> "sample", p |-> p, complete |-> TRUE]
  /\ data = IF impl = "explorer" THEN table ELSE NoTable
  /\ wired = TRUE
  /\ values = Domains(table.p)
  /\ LET rest == IF impl = "explorer" THEN initialIdx(values)
                 ELSE rebuiltIdx(values, [a \in VarSet |-> 0])
     IN \E iW \in StopsOr("W", xSel, ovSel, values, rest),
           iQ \in StopsOr("Q2", xSel, ovSel, values, rest),
           iC \in StopsOr("cos", xSel, ovSel, values, rest),
           iP \in StopsOr("phi", xSel, ovSel, values, rest) :
          idx = [a \in VarSet |->
                   CASE a = "W" -> iW [] a = "Q2" -> iQ
                     [] a = "cos" -> iC [] a = "phi" -> iP]
  /\ inflight = <<>>
  /\ plot = NoPlot
  /\ report = "idle"

QueryNext == ExplorerUpdate \/ ViewerUpdate

QuerySpec == QueryInit /\ [][QueryNext]_vars

----------------------------------------------------------------------------
(* What the properties below read off a state *)

\* the table the query scans
InUse == IF impl = "explorer" THEN data ELSE table

\* the fixed-axis constraints the sliders give the query, by column
sliderFixed ==
  [k \in {VARCOL[v] : v \in fixedVars(xSel, ovSel)} |->
     IF impl = "explorer" THEN getValue(values[KeyVar(k)], idx[KeyVar(k)])
     ELSE get(values[KeyVar(k)], idx[KeyVar(k)])]

\* the overlay groups of support >= 4 under the current filter, ranked
Qualifying ==
  groupCoverage(Rows(InUse.p), ySel, xSel, sliderFixed, VARCOL[ovSel],
                MinPoints)

Emitted == {plot.traces[i].ov : i \in DOMAIN plot.traces}

Drawn == report = "drawn" /\ plot.kind = "curves"

----------------------------------------------------------------------------
(* C1: whenever the filter / coverage / curve computation has run, after    *)
(* any x-axis, overlay, slider and redraw events, xAxis differs from        *)
(* overlayAxis and the fixed axes are exactly the two other axes.           *)
C1_AxesDifferWhenQueried ==
  report = "drawn" =>
    /\ xSel # ovSel
    /\ fixedVars(xSel, ovSel) = VarSet \ {xSel, ovSel}
    /\ Cardinality(fixedVars(xSel, ovSel)) = 2
    /\ DOMAIN sliderFixed = {VARCOL[v] : v \in VarSet \ {xSel, ovSel}}

C1_Witness ==
  /\ impl = "explorer"
  /\ Drawn
  /\ data.file = "full"
  /\ plot.traces # <<>>
  /\ xSel = "phi"
  /\ ovSel = "Q2"

(* C2: no curve handed to the render sink has fewer than 4 points.          *)
C2_NoShortCurve ==
  plot.kind = "curves" =>
    \A i \in DOMAIN plot.traces : Len(plot.traces[i].x) >= MinPoints

(* C2, explorer only: the explorer's curves all have at least 4 points.     *)
C2_ExplorerNoShortCurve == impl = "explorer" => C2_NoShortCurve

(* C3: a redraw emits at most 8 curves, however many overlay groups reach   *)
(* the support threshold.                                                   *)
C3_AtMostMaxTraces ==
  plot.kind = "curves" => Len(plot.traces) <= MaxTraces

C3_Witness ==
  /\ Drawn
  /\ Len(Qualifying) > MaxTraces
  /\ Len(plot.traces) = MaxTraces

(* C4: in every emitted curve the x sequence is non-decreasing and every    *)
(* x and y is finite, whatever non-finite values the table holds.           *)
C4_SortedFiniteCurves ==
  plot.kind = "curves" =>
    \A i \in DOMAIN plot.traces :
      LET t == plot.traces[i]
      IN /\ Len(t.x) = Len(t.y)
         /\ \A j \in DOMAIN t.x : isFinite(t.x[j]) /\ isFinite(t.y[j])
         /\ \A j \in 1..(Len(t.x) - 1) : t.x[j] <= t.x[j + 1]

C4_Witness ==
  /\ Drawn
  /\ table.p.defect \in {"nanX", "nanY", "nanOv"}
  /\ xSel = "phi"
  /\ plot.traces # <<>>

(* C5: a redraw requested with the overlay equal to the x axis is rejected: *)
(* the rejection is surfaced, no curve is built and the figure keeps the    *)
(* curves it showed.                                                        *)
C5_EqualAxesRejected ==
  [][(xSel' = ovSel' /\ report' \in {"drawn", "alert"})
       => (report' = "alert" /\ plot' = plot)]_vars

C5_Witness ==
  /\ report = "alert"
  /\ xSel = ovSel
  /\ plot.kind = "curves"
  /\ plot.traces # <<>>

(* C6: when a table load fails (transport failure or a required column     *)
(* absent) the table, the column data and the slider domains stay those in  *)
(* use before the attempt, and the failure is shown to the user.            *)
C6_FailedLoadKeepsStateAndReports ==
  [][report' \in {"loaderror", "unhandled"}
       => /\ table' = table
          /\ data' = data
          /\ values' = values
          /\ report' = "loaderror"
          /\ plot'.kind = "error"]_vars

(* C6, viewer only: a failed load leaves TABLE, the domains and the sliders *)
(* alone and writes the error into the figure.                              *)
C6_ViewerFailedLoad ==
  [][(impl = "viewer" /\ report' \in {"loaderror", "unhandled"})
       => /\ table' = table
          /\ values' = values
          /\ idx' = idx
          /\ report' = "loaderror"
          /\ plot'.kind = "error"]_vars

(* C7: a redraw never scans a table whose slider domains were derived from  *)
(* a different table: table, axis domains and slider controllers change as  *)
(* one unit.                                                                *)
C7_SlidersMatchScannedTable ==
  report = "drawn" => values = Domains(InUse.p)

C9_EmptyResultIsEmptyPlot ==
  (report # "idle" /\ xSel # ovSel /\ Qualifying = <<>>)
    => (report = "drawn" /\ plot = Curves(<<>>))

(* C9, explorer only.                                                       *)
C9_ExplorerEmptyResult == impl = "explorer" => C9_EmptyResultIsEmptyPlot

(* C10: the groups of support >= 4 are ranked by descending support, ties   *)
(* by ascending overlay value, the top 8 are kept and emitted in ascending  *)
(* overlay order; every qualifying group left out has support no greater    *)
(* than every group kept.                                                   *)
C10_RankedAscending ==
  Drawn =>
    LET qual == SeqToSet(Qualifying)
        kept == {q \in qual : q.ov \in Emitted}
        left == qual \ kept
    IN /\ \A i \in 1..(Len(plot.traces) - 1) :
            plot.traces[i].ov < plot.traces[i + 1].ov
       /\ Emitted \subseteq {q.ov : q \in qual}
       /\ Cardinality(kept) = Min2(MaxTraces, Cardinality(qual))
       /\ \A q \in left, k \in kept :
            q.n < k.n \/ (q.n = k.n /\ q.ov > k.ov)

(* C10, explorer only.                                                      *)
C10_ExplorerRankedAscending == impl = "explorer" => C10_RankedAscending

(* C11: when the x variable changes and the new x equals the current        *)
(* overlay, the overlay becomes the first of W, Q2, cos, phi that differs   *)
(* from the new x; otherwise the overlay is left as it was.                 *)
C11_OverlayFollowsX ==
  [][xSel' # xSel =>
       ovSel' = IF ovSel = xSel'
                THEN AllVars[CHOOSE i \in DOMAIN AllVars :
                               /\ AllVars[i] # xSel'
                               /\ \A j \in 1..(i - 1) : AllVars[j] = xSel']
                ELSE ovSel]_vars

C11_Witness ==
  /\ impl = "explorer"
  /\ xSel = "W"
  /\ ovSel = "Q2"
  /\ report = "idle"
  /\ plot.kind = "curves"
  /\ plot.traces # <<>>
  /\ plot.traces[1].name[1] = "W"

\* the mask the front end in use computes for the current selection
codeMask ==
  IF impl = "explorer"
  THEN coverMask(Rows(InUse.p), ySel, sliderFixed)
  ELSE selMask(Rows(InUse.p), ySel,
               viewerFixVals(xSel, ovSel, values, idx))

\* row admission as specified: both flags and every fixed axis within its eps
Admitted(row) ==
  /\ row.ok_kin
  /\ IF ySel = "delta_xsec_ratio" THEN row.ok_delta ELSE row.ok_asym
  /\ \A k \in DOMAIN sliderFixed :
       /\ isFinite(row[k])
       /\ isFinite(sliderFixed[k])
       /\ Abs(row[k] - sliderFixed[k]) <= (IF k = "phi_deg" THEN EpsPhi ELSE EpsKey)

(* C12: the admission mask admits a row exactly when the kinematics flag    *)
(* and the flag of the chosen metric are set and each of the two fixed      *)
(* axes is within its tolerance of the slider value, the phi tolerance      *)
(* being the looser one; a row off by a non-zero amount within the          *)
(* tolerance is admitted.                                                   *)
C12_MaskAdmitsWithinTolerance ==
  Drawn => /\ EpsPhi > EpsKey
           /\ \A i \in DOMAIN codeMask :
                codeMask[i] <=> Admitted(Rows(InUse.p)[i])

(* C12, explorer only: its mask also requires the metric value itself to    *)
(* be finite.                                                               *)
C12_ExplorerMask ==
  (impl = "explorer" /\ Drawn) =>
    \A i \in DOMAIN codeMask :
      codeMask[i] <=> /\ Admitted(Rows(InUse.p)[i])
                      /\ isFinite(yValue(Rows(InUse.p)[i], ySel))

\* what the slider of variable a returns to the query
sliderValue(a) ==
  IF impl = "explorer" THEN getValue(values[a], idx[a])
  ELSE get(values[a], idx[a])

(* C13: after any loads, dataset switches and slider moves, the value each  *)
(* slider returns is a member of that variable's domain in the table the    *)
(* query uses, and its index lies within that domain.                       *)
C13_SliderValueInDomainInUse ==
  (wired /\ InUse # NoTable) =>
    \A a \in VarSet :
      /\ sliderValue(a) \in SeqToSet(Domains(InUse.p)[a])
      /\ idx[a] \in 0..(Len(Domains(InUse.p)[a]) - 1)

(* C13, explorer only.                                                      *)
C13_ExplorerSliderValueInDomain ==
  impl = "explorer" => C13_SliderValueInDomainInUse

\* a step that ends a table load with the table put to use
loadCompleted ==
  /\ Len(inflight') < Len(inflight)
  /\ report' \in {"drawn", "alert"}

(* C14: immediately after a table load the index of every slider is the     *)
(* middle of its domain, floor(|domain| / 2), so the first redraw after     *)
(* the load fixes each fixed axis at the middle element of its domain.      *)
C14_MiddleAfterLoad ==
  [][loadCompleted =>
       \A a \in VarSet : idx'[a] = Len(Domains(InUse'.p)[a]) \div 2]_vars

(* C15: every overlay value the ranker selects yields an emitted curve with *)
(* as many points as the support the ranker counted for it; the number of   *)
(* curves is min(8, number of groups of support >= 4); no curve has two     *)
(* points with the same x, and every point of a curve comes from a row of   *)
(* that curve's own overlay group.                                          *)
C15_CurvesMatchRanking ==
  Drawn =>
    LET rows == Rows(InUse.p)
        ovk  == VARCOL[ovSel]
        xk   == VARCOL[xSel]
    IN /\ Len(plot.traces) = Min2(MaxTraces, Len(Qualifying))
       /\ \A t \in SeqToSet(plot.traces) :
            /\ \E i \in DOMAIN Qualifying :
                 Qualifying[i].ov = t.ov /\ Qualifying[i].n = Len(t.x)
            /\ Cardinality(SeqToSet(t.x)) = Len(t.x)
            /\ \A i \in DOMAIN t.x :
                 \E r \in DOMAIN rows :
                   /\ rows[r][ovk] = t.ov
                   /\ rows[r][xk] = t.x[i]
                   /\ yValue(rows[r], ySel) = t.y[i]

(* C15, explorer only, on tables without a row within tolerance of another  *)
(* overlay group or a second row at the same x.                             *)
C15_ExplorerOnSeparatedRows ==
  (impl = "explorer" /\ table.p.defect \notin {"nearOv", "nearPhi", "dupX"})
    => C15_CurvesMatchRanking

(* C16: when two table loads are in flight at once, a load requested        *)
(* earlier that finishes after a later one does not replace the later       *)
(* one's result: the dataset in use stays that of the later request.        *)
C16_LatestLoadWins ==
  [][\A i \in 1..MaxInFlight :
       ((ExplorerLoaded(i) \/ ViewerFetched(i)) /\ inflight[i].overtaken)
         => InUse'.file = InUse.file]_vars

====
